---- MODULE Spec2Model ----
(***************************************************************************)
(* Model of the Linux side of the flutter_persistent_state plugin          *)
(* (src/linux/flutter_persistent_state_plugin.cc): registration of the     *)
(* plugin object with the method channel, the method-call handler and the  *)
(* getPlatformVersion query.                                               *)
(*                                                                         *)
(* C strings are sequences of ASCII codes; a char array is a sequence of   *)
(* fixed length that is read up to its first NUL (0).                      *)
(***************************************************************************)
EXTENDS Integers, Sequences, FiniteSets

VARIABLES
  kernel,       \* what the running kernel reports: [sysname, release, version]
  uname_fails,  \* TRUE when uname(2) returns -1 in this process
  pc,           \* position inside flutter_persistent_state_plugin_register_with_registrar
  plugin,       \* the FlutterPersistentStatePlugin GObject: [ref_count, disposed]
  channel,      \* the FlMethodChannel: [name, handler, destroy_notify]
  calls,        \* the method calls handed to method_call_cb, in order of arrival
  responses,    \* the fl_method_call_respond calls made so far: [call, response]
  faults        \* memory faults met so far (use of / unref of a finalized object)

vars == <<kernel, uname_fails, pc, plugin, channel, calls, responses, faults>>

\* Number of method calls the engine delivers in one run.
MaxCalls == 3

\* Length of each char array of struct utsname (_UTSNAME_LENGTH of <sys/utsname.h>).
UTSNAME_LENGTH == 65

----------------------------------------------------------------------------
\* String literals of the source, as ASCII codes.

\* "getPlatformVersion"
STR_getPlatformVersion ==
  <<103, 101, 116, 80, 108, 97, 116, 102, 111, 114, 109, 86, 101, 114, 115, 105, 111, 110>>

\* "Linux %s"
STR_format == <<76, 105, 110, 117, 120, 32, 37, 115>>

\* "flutter_persistent_state"
CHANNEL_NAME == "flutter_persistent_state"

\* Strings of the environment and of the method calls the engine may deliver.
STR_empty == <<>>
\* "getPlatform"
STR_getPlatform == <<103, 101, 116, 80, 108, 97, 116, 102, 111, 114, 109>>
\* "getPlatformVersionX"
STR_getPlatformVersionX ==
  <<103, 101, 116, 80, 108, 97, 116, 102, 111, 114, 109, 86, 101, 114, 115, 105, 111, 110, 88>>
\* "getplatformversion"
STR_getplatformversion ==
  <<103, 101, 116, 112, 108, 97, 116, 102, 111, 114, 109, 118, 101, 114, 115, 105, 111, 110>>
\* "frobnicate"
STR_frobnicate == <<102, 114, 111, 98, 110, 105, 99, 97, 116, 101>>
\* "Linux"
STR_Linux == <<76, 105, 110, 117, 120>>
\* "Linux " (the literal part of the format)
STR_LinuxSpace == <<76, 105, 110, 117, 120, 32>>
\* "5.15.0-generic"
STR_release_5_15 == <<53, 46, 49, 53, 46, 48, 45, 103, 101, 110, 101, 114, 105, 99>>
\* "#1 SMP"
STR_version_1_SMP == <<35, 49, 32, 83, 77, 80>>
\* "6.1.0"
STR_release_6_1 == <<54, 46, 49, 46, 48>>
\* "#2"
STR_version_2 == <<35, 50>>
\* "Linux 5.15.0-generic"
STR_Linux_5_15 ==
  <<76, 105, 110, 117, 120, 32, 53, 46, 49, 53, 46, 48, 45, 103, 101, 110, 101, 114, 105, 99>>
\* "Linux #1 SMP"
STR_Linux_1_SMP == <<76, 105, 110, 117, 120, 32, 35, 49, 32, 83, 77, 80>>

\* The method names the engine delivers: the known one, the empty name, a proper
\* prefix, an extension, a case variant and an unrelated name.
MethodNames ==
  { STR_getPlatformVersion, STR_empty, STR_getPlatform, STR_getPlatformVersionX,
    STR_getplatformversion, STR_frobnicate }

\* The arguments of a method call: none, the null value, a structured value.
Arguments == {"absent", "null", "map"}

\* The hosts the process may run on.
Kernels ==
  { [sysname |-> STR_Linux, release |-> STR_release_5_15, version |-> STR_version_1_SMP],
    [sysname |-> STR_Linux, release |-> STR_release_6_1, version |-> STR_version_2] }

----------------------------------------------------------------------------
\* libc

\* The char at position i of a C string (1-based); the terminating NUL after its end.
CharAt(s, i) == IF i <= Len(s) THEN s[i] ELSE 0

RECURSIVE strcmp_from(_, _, _)
strcmp_from(a, b, i) ==
  IF CharAt(a, i) # CharAt(b, i) THEN CharAt(a, i) - CharAt(b, i)
  ELSE IF CharAt(a, i) = 0 THEN 0
  ELSE strcmp_from(a, b, i + 1)

RECURSIVE strncmp_from(_, _, _, _)
strncmp_from(a, b, n, i) ==
  IF i > n THEN 0
  ELSE IF CharAt(a, i) # CharAt(b, i) THEN CharAt(a, i) - CharAt(b, i)
  ELSE IF CharAt(a, i) = 0 THEN 0
  ELSE strncmp_from(a, b, n, i + 1)

\* A comparison bounded by the length of the first string: every prefix matches.
strcmp_prefix(a, b) == strncmp_from(a, b, Len(a), 1)

\* strcmp(3): 0 when equal, else the difference of the first differing bytes.
strcmp(a, b) == strcmp_from(a, b, 1)

\* The C string held by a char array: its bytes up to the first NUL.
RECURSIVE CStringFrom(_, _)
CStringFrom(buf, i) ==
  IF i > Len(buf) \/ buf[i] = 0 THEN <<>> ELSE <<buf[i]>> \o CStringFrom(buf, i + 1)

CString(buf) == CStringFrom(buf, 1)

\* A char array of struct utsname holding s, NUL padded.
CharArray(s) == [i \in 1..UTSNAME_LENGTH |-> IF i <= Len(s) THEN s[i] ELSE 0]

\* A struct utsname left uninitialised: whatever bytes the stack held.
utsname_uninitialised ==
  [sysname |-> CharArray(<<63, 63>>), release |-> CharArray(<<63, 63>>),
   version |-> CharArray(<<63, 63>>)]

\* struct utsname uname_data = {};
utsname_zeroed ==
  [sysname |-> CharArray(<<>>), release |-> CharArray(<<>>), version |-> CharArray(<<>>)]

\* uname(2): on success fills the struct and returns 0; on failure returns -1 and
\* leaves the struct as it was.
uname(buf) ==
  IF uname_fails THEN [ret |-> -1, buf |-> buf]
  ELSE [ret |-> 0,
        buf |-> [sysname |-> CharArray(kernel.sysname),
                 release |-> CharArray(kernel.release),
                 version |-> CharArray(kernel.version)]]

\* g_strdup_printf with one %s argument: literal bytes are copied, %s is replaced by
\* the C string of the argument.
RECURSIVE printf_from(_, _, _)
printf_from(format, arg, i) ==
  IF i > Len(format) THEN <<>>
  ELSE IF format[i] = 37 /\ i < Len(format) /\ format[i + 1] = 115
       THEN CString(arg) \o printf_from(format, arg, i + 2)
       ELSE <<format[i]>> \o printf_from(format, arg, i + 1)

g_strdup_printf(format, arg) == printf_from(format, arg, 1)

----------------------------------------------------------------------------
\* Flutter values and responses

FlNull == [type |-> "null", value |-> <<>>]

fl_value_new_string(s) == [type |-> "string", value |-> s]

fl_method_success_response_new(result) == [tag |-> "Success", result |-> result]

fl_method_not_implemented_response_new == [tag |-> "NotImplemented", result |-> FlNull]

fl_method_error_response_new == [tag |-> "Error", result |-> FlNull]

----------------------------------------------------------------------------
\* GObject reference counting

\* g_object_new: a fresh object holds one reference.
g_object_new == [ref_count |-> 1, disposed |-> 0]

\* Handing the object over without taking a reference.
g_object_ref_missing(object) == object

g_object_ref(object) == [object EXCEPT !.ref_count = @ + 1]

\* flutter_persistent_state_plugin_dispose: chains to the parent class, nothing else.
flutter_persistent_state_plugin_dispose(object) == [object EXCEPT !.disposed = @ + 1]

\* g_object_unref: drops one reference; dropping the last one disposes the object.
\* Called on an object whose count is already 0 it is a fault (see Unref_fault).
g_object_unref(object) ==
  IF object.ref_count > 1 THEN [object EXCEPT !.ref_count = @ - 1]
  ELSE IF object.ref_count = 1
       THEN [flutter_persistent_state_plugin_dispose(object) EXCEPT !.ref_count = 0]
       ELSE object

Unref_fault(object) == IF object.ref_count = 0 THEN {"unref_after_finalize"} ELSE {}

\* FLUTTER_PERSISTENT_STATE_PLUGIN(obj): the checked cast reads the instance.
Cast_fault(object) == IF object.ref_count = 0 THEN {"use_after_finalize"} ELSE {}

----------------------------------------------------------------------------
\* The handler

\* get_platform_version formatting the bare version, without the "Linux " prefix.
get_platform_version_no_prefix ==
  LET uname_data == uname(utsname_zeroed).buf
      version    == g_strdup_printf(<<37, 115>>, uname_data.version)
  IN  fl_method_success_response_new(fl_value_new_string(version))

\* get_platform_version checking the status of uname and reporting an error.
get_platform_version_checked ==
  LET r       == uname(utsname_zeroed)
      version == g_strdup_printf(STR_format, r.buf.version)
  IN  IF r.ret # 0 THEN fl_method_error_response_new
      ELSE fl_method_success_response_new(fl_value_new_string(version))

\* get_platform_version appending a call counter kept in a static variable.
get_platform_version_counting ==
  LET uname_data == uname(utsname_zeroed).buf
      version    == g_strdup_printf(STR_format, uname_data.version)
  IN  fl_method_success_response_new(fl_value_new_string(version \o <<48 + Len(calls)>>))

\* get_platform_version formatting the wrong field of struct utsname.
get_platform_version_sysname ==
  LET uname_data == uname(utsname_zeroed).buf
      version    == g_strdup_printf(STR_format, uname_data.sysname)
  IN  fl_method_success_response_new(fl_value_new_string(version))

get_platform_version ==
  LET uname_data == uname(utsname_zeroed).buf
      version    == g_strdup_printf(STR_format, uname_data.version)
      result     == fl_value_new_string(version)
  IN  fl_method_success_response_new(result)

fl_method_call_get_name(method_call) == method_call.name

\* The handler returning early, without a response, for a method it does not know.
handle_method_call_silent(self, method_call) ==
  IF strcmp(fl_method_call_get_name(method_call), STR_getPlatformVersion) = 0
  THEN <<get_platform_version>>
  ELSE <<>>

\* The handler responding "not implemented" first and then again on a match.
handle_method_call_twice(self, method_call) ==
  IF strcmp(fl_method_call_get_name(method_call), STR_getPlatformVersion) = 0
  THEN <<fl_method_not_implemented_response_new, get_platform_version>>
  ELSE <<fl_method_not_implemented_response_new>>

\* The handler insisting on a call without arguments.
handle_method_call_args(self, method_call) ==
  IF strcmp(fl_method_call_get_name(method_call), STR_getPlatformVersion) = 0
     /\ method_call.args # "map"
  THEN <<get_platform_version>>
  ELSE <<fl_method_not_implemented_response_new>>

\* flutter_persistent_state_plugin_handle_method_call: the responses it passes to
\* fl_method_call_respond, in order.
flutter_persistent_state_plugin_handle_method_call(self, method_call) ==
  LET method   == fl_method_call_get_name(method_call)
      response == IF strcmp(method, STR_getPlatformVersion) = 0
                  THEN get_platform_version
                  ELSE fl_method_not_implemented_response_new
  IN  <<response>>

\* fl_method_call_respond(method_call, response, nullptr) for each response issued
\* while handling call number id.
Respond(log, id, issued) ==
  log \o [i \in 1..Len(issued) |-> [call |-> id, response |-> issued[i]]]

----------------------------------------------------------------------------
\* State machine

Init ==
  /\ kernel \in Kernels
  /\ uname_fails \in BOOLEAN
  /\ pc = "start"
  /\ plugin = [ref_count |-> 0, disposed |-> 0]
  /\ channel = [name |-> "", handler |-> "none", destroy_notify |-> "none"]
  /\ calls = <<>>
  /\ responses = <<>>
  /\ faults = {}

\* plugin = g_object_new(flutter_persistent_state_plugin_get_type(), nullptr)
RegisterNew ==
  /\ pc = "start"
  /\ plugin' = g_object_new
  /\ pc' = "created"
  /\ UNCHANGED <<kernel, uname_fails, channel, calls, responses, faults>>

\* codec = fl_standard_method_codec_new(); channel = fl_method_channel_new(...)
RegisterChannel ==
  /\ pc = "created"
  /\ channel' = [name |-> CHANNEL_NAME, handler |-> "none", destroy_notify |-> "none"]
  /\ pc' = "channel"
  /\ UNCHANGED <<kernel, uname_fails, plugin, calls, responses, faults>>

\* fl_method_channel_set_method_call_handler(channel, method_call_cb,
\*                                           g_object_ref(plugin), g_object_unref)
RegisterSetHandler ==
  /\ pc = "channel"
  /\ plugin' = g_object_ref(plugin)
  /\ channel' = [channel EXCEPT !.handler = "method_call_cb",
                                !.destroy_notify = "g_object_unref"]
  /\ pc' = "handler"
  /\ UNCHANGED <<kernel, uname_fails, calls, responses, faults>>

\* g_object_unref(plugin), then the function returns.
RegisterUnref ==
  /\ pc = "handler"
  /\ faults' = faults \cup Unref_fault(plugin)
  /\ plugin' = g_object_unref(plugin)
  /\ pc' = "done"
  /\ UNCHANGED <<kernel, uname_fails, channel, calls, responses>>

\* method_call_cb: the main loop delivers one method call to the installed handler.
method_call_cb(name, args) ==
  /\ pc = "done"
  /\ channel.handler = "method_call_cb"
  /\ Len(calls) < MaxCalls
  /\ LET method_call == [name |-> name, args |-> args]
         issued == flutter_persistent_state_plugin_handle_method_call(plugin, method_call)
     IN  /\ calls' = Append(calls, method_call)
         /\ responses' = Respond(responses, Len(calls) + 1, issued)
  /\ faults' = faults \cup Cast_fault(plugin)
  /\ UNCHANGED <<kernel, uname_fails, pc, plugin, channel>>

\* The channel drops its handler (engine shutdown): destroy_notify(user_data).
HandlerDestroyNotify ==
  /\ pc = "done"
  /\ channel.handler = "method_call_cb"
  /\ faults' = faults \cup Unref_fault(plugin)
  /\ plugin' = g_object_unref(plugin)
  /\ channel' = [channel EXCEPT !.handler = "none", !.destroy_notify = "none"]
  /\ UNCHANGED <<kernel, uname_fails, pc, calls, responses>>

Next ==
  \/ RegisterNew
  \/ RegisterChannel
  \/ RegisterSetHandler
  \/ RegisterUnref
  \/ \E name \in MethodNames, args \in Arguments : method_call_cb(name, args)
  \/ HandlerDestroyNotify

Spec == Init /\ [][Next]_vars

----------------------------------------------------------------------------
\* Properties

Handled == 1..Len(calls)

IsKnown(i) == calls[i].name = STR_getPlatformVersion

\* The responses issued for call number i.
Answers(i) == { responses[j].response : j \in { k \in DOMAIN responses : responses[k].call = i } }

NotImplemented == [tag |-> "NotImplemented", result |-> FlNull]

Success(s) == [tag |-> "Success", result |-> [type |-> "string", value |-> s]]

\* C1: every method call whose name is not exactly "getPlatformVersion" (the empty
\* name, a proper prefix, an extension, a case variant, "frobnicate") is answered
\* with NotImplemented, whatever its arguments and whatever calls came before.
C1_UnknownNotImplemented ==
  \A i \in Handled : ~IsKnown(i) => Answers(i) = {NotImplemented}

\* C1 witness: the prefix, the extension, and the case variant have all been handled,
\* each after other calls or with different arguments.
C1_Witness ==
  /\ Len(calls) = 3
  /\ calls[1].name = STR_getPlatform /\ calls[1].args = "map"
  /\ calls[2].name = STR_getPlatformVersionX /\ calls[2].args = "null"
  /\ calls[3].name = STR_getplatformversion /\ calls[3].args = "absent"
  /\ \A i \in Handled : Answers(i) = {NotImplemented}

\* C2: every call of "getPlatformVersion" is answered with Success carrying a
\* non-empty string, never with NotImplemented or Error.
C2_KnownSuccessNonEmpty ==
  \A i \in Handled :
    IsKnown(i) =>
      /\ Answers(i) # {}
      /\ \A r \in Answers(i) :
           r.tag = "Success" /\ r.result.type = "string" /\ Len(r.result.value) > 0

\* C2 witness: a getPlatformVersion call answered with a Success string, with uname
\* failing (the shortest string the handler can produce).
C2_Witness ==
  /\ uname_fails
  /\ \E i \in Handled :
       IsKnown(i) /\ \E r \in Answers(i) : r.tag = "Success" /\ Len(r.result.value) > 0

\* C3: each call handed to the handler gets exactly one response, and its tag is
\* Success iff the name is "getPlatformVersion" and NotImplemented iff it is not.
C3_ExactlyOneConsistentResponse ==
  \A i \in Handled :
    /\ Cardinality({ k \in DOMAIN responses : responses[k].call = i }) = 1
    /\ \A r \in Answers(i) :
         /\ r.tag = "Success" <=> IsKnown(i)
         /\ r.tag = "NotImplemented" <=> ~IsKnown(i)

\* C3 witness: a run with a known and an unknown call, both answered.
C3_Witness ==
  /\ Len(calls) = 3 /\ Len(responses) = 3
  /\ IsKnown(1) /\ ~IsKnown(2) /\ IsKnown(3)
  /\ responses[1].response.tag = "Success"
  /\ responses[2].response.tag = "NotImplemented"

\* C4: every response is Success or NotImplemented, never Error, and every call
\* ends in a response value: no memory fault replaces it.
C4_NoErrorResponse ==
  /\ \A k \in DOMAIN responses : responses[k].response.tag \in {"Success", "NotImplemented"}
  /\ \A i \in Handled : Answers(i) # {}
  /\ faults = {}

\* C4 witness: the case closest to an error, getPlatformVersion with uname failing,
\* next to an unknown method.
C4_Witness ==
  /\ uname_fails
  /\ Len(calls) >= 2
  /\ IsKnown(1) /\ calls[2].name = STR_frobnicate
  /\ Answers(1) # {} /\ Answers(2) # {}

\* C5: all getPlatformVersion calls of one process get the same Success value, also
\* with calls of unknown methods between them.
C5_SameValueEveryTime ==
  \A i, j \in Handled :
    (IsKnown(i) /\ IsKnown(j)) =>
      /\ Answers(i) = Answers(j)
      /\ Cardinality(Answers(i)) = 1
      /\ \A r \in Answers(i) : r.tag = "Success"

\* C5 witness: getPlatformVersion, an unknown method, getPlatformVersion again.
C5_Witness ==
  /\ Len(calls) = 3
  /\ IsKnown(1) /\ calls[2].name = STR_frobnicate /\ IsKnown(3)
  /\ Answers(1) = Answers(3) /\ Answers(1) # {}

\* C6: two calls with the same method name and different arguments get the same
\* response, for getPlatformVersion and for every unknown name.
C6_ArgumentsNotConsulted ==
  \A i, j \in Handled :
    (calls[i].name = calls[j].name /\ calls[i].args # calls[j].args) =>
      (Answers(i) = Answers(j) /\ Answers(i) # {})

\* C6 witness: getPlatformVersion called with no arguments, with null and with a
\* structured value.
C6_Witness ==
  /\ Len(calls) = 3
  /\ IsKnown(1) /\ IsKnown(2) /\ IsKnown(3)
  /\ calls[1].args = "absent" /\ calls[2].args = "null" /\ calls[3].args = "map"
  /\ Answers(1) = Answers(3) /\ Answers(1) # {}

\* C7 as stated: on a host whose kernel release is 5.15.0-generic (and whose uname
\* succeeds) getPlatformVersion answers Success("Linux 5.15.0-generic"), "Linux "
\* followed by the string that identifies the running kernel.
C7_Original ==
  \A i \in Handled :
    (IsKnown(i) /\ ~uname_fails /\ kernel.release = STR_release_5_15) =>
      Answers(i) = {Success(STR_Linux_5_15)}

\* C7 amended: the string is "Linux " followed by the version field of struct
\* utsname as uname left it (the kernel build string such as "#1 SMP", not the
\* release; empty when uname failed), so that a host whose release is
\* 5.15.0-generic and whose version is "#1 SMP" answers Success("Linux #1 SMP").
C7_LinuxPlusVersionField ==
  \A i \in Handled :
    IsKnown(i) =>
      /\ Answers(i) =
           {Success(STR_LinuxSpace \o (IF uname_fails THEN <<>> ELSE kernel.version))}
      /\ (~uname_fails /\ kernel.release = STR_release_5_15
            /\ kernel.version = STR_version_1_SMP)
           => Answers(i) = {Success(STR_Linux_1_SMP)}

\* C7 witness: getPlatformVersion answered on the 5.15.0-generic host with uname
\* succeeding.
C7_Witness ==
  /\ ~uname_fails
  /\ kernel.release = STR_release_5_15
  /\ \E i \in Handled : IsKnown(i) /\ Answers(i) = {Success(STR_Linux_1_SMP)}

\* C8: handling runs to completion: whenever the handler is not running, every call
\* handed to it so far has its response, and the responses were issued in the
\* order the calls arrived.
C8_RunToCompletionInOrder ==
  /\ Len(responses) = Len(calls)
  /\ \A k \in DOMAIN responses : responses[k].call = k

\* C8 witness: three calls of different kinds handled, the third response issued
\* for the third call.
C8_Witness ==
  /\ Len(calls) = 3
  /\ calls[1].name = STR_frobnicate /\ IsKnown(2) /\ calls[3].name = STR_empty
  /\ Len(responses) = 3 /\ responses[3].call = 3

\* C9: when uname fails, getPlatformVersion still answers Success, and the string
\* is "Linux " followed by the empty version read from the zeroed buffer.
C9_UnameFailureStillSuccess ==
  \A i \in Handled :
    (IsKnown(i) /\ uname_fails) => Answers(i) = {Success(STR_LinuxSpace)}

\* C9 witness: uname fails and getPlatformVersion has been answered.
C9_Witness ==
  /\ uname_fails
  /\ \E i \in Handled : IsKnown(i) /\ Success(STR_LinuxSpace) \in Answers(i)

\* C10: the plugin's reference count is 1 after creation, 2 once the handler holds
\* its reference, 1 after registration dropped its own; it is at least 1 while the
\* handler on channel "flutter_persistent_state" is installed; the destroy
\* notification drops the last reference, which disposes the plugin exactly once;
\* no finalized object is used or released again.
C10_PluginLifetime ==
  /\ faults = {}
  /\ plugin.disposed <= 1
  /\ pc = "start" => (plugin.ref_count = 0 /\ plugin.disposed = 0)
  /\ pc \in {"created", "channel"} => (plugin.ref_count = 1 /\ plugin.disposed = 0)
  /\ pc = "handler" => (plugin.ref_count = 2 /\ plugin.disposed = 0)
  /\ channel.handler = "method_call_cb" =>
       /\ plugin.ref_count >= 1 /\ plugin.disposed = 0
       /\ channel.name = CHANNEL_NAME
       /\ channel.destroy_notify = "g_object_unref"
  /\ (pc = "done" /\ channel.handler = "method_call_cb") => plugin.ref_count = 1
  /\ (pc = "done" /\ channel.handler = "none") =>
       (plugin.ref_count = 0 /\ plugin.disposed = 1)

\* C10 witness: the handler served calls and was then destroyed, which finalized
\* the plugin.
C10_Witness ==
  /\ pc = "done"
  /\ channel.handler = "none"
  /\ Len(calls) = 2
  /\ plugin.ref_count = 0 /\ plugin.disposed = 1

====
